---- MODULE Spec2Model ----
(***************************************************************************)
(* ClassifyFst of nemo_text_processing.inverse_text_normalization (en, ru):*)
(* construction of the tokenize-and-classify grammar, its .far cache, and  *)
(* the classify pass the built grammar answers.                            *)
(*                                                                         *)
(* Weights are the source's floats times 100 (1.1 is 110, 1.09 is 109).    *)
(***************************************************************************)
EXTENDS Integers, FiniteSets, Sequences, TLC

VARIABLES
    dirs,           \* directories that exist on disk
    far,            \* content of <cache_dir>/_<lang>_itn.far, per <<dir, lang>>
    tn_far,         \* content of the text-normalization grammar's .far, per dir
    pc,             \* per caller: position inside ClassifyFst.__init__
    args,           \* per caller: the arguments of the running construction
    fst,            \* per caller: self.fst
    logged,         \* per caller: keys reported by logging.info as non-existent
    reads,          \* per caller: reads of the cache file by this construction
    builds,         \* per caller: builds of the class grammars by this construction
    writes,         \* per caller: writes of the cache file by this construction
    found,          \* per caller: what the cache file held when line 121 ran
    constructions,  \* constructions started so far
    passed,         \* per caller: the mappings it passed, as it holds them now
    tn_calls,       \* per caller: what this construction did to the TN grammar
    text,           \* the text typed so far, a sequence of characters
    tagged,         \* per caller: what the classify pass of its grammar answered
    cfg,            \* transcribe_speech: the TranscriptionConfig main is given
    is_available,   \* transcribe_speech: torch.cuda.is_available()
    main            \* transcribe_speech: main's position, device setup and trainer

\* the state of the constructions and of the disk
constructionVars == <<dirs, far, tn_far, pc, args, fst, logged, reads, builds, writes, found,
                      constructions, passed, tn_calls>>

\* the state of the classify pass
passVars == <<text, tagged>>

\* the state of transcribe_speech.main
mainVars == <<cfg, is_available, main>>

vars == <<constructionVars, passVars, mainVars>>

---------------------------------------------------------------------------
(* Bounds *)

\* constructions one caller makes one after the other
MaxConstructions == 3

\* constructions two concurrent callers make between them
MaxConcurrent == 3

\* characters of a typed text
MaxLen == 4

\* words of a text two grammars are compared on
MaxWords == 4

\* CUDA device numbers run from -MaxCuda to MaxCuda
MaxCuda == 2

---------------------------------------------------------------------------
(* Values *)

Procs == {"p1", "p2"}

Langs == {"en", "ru"}

PyNone == "<None>"

\* the directories a cache_dir argument can name
CacheDirs == {"d1", "None"}

\* the values of the cache_dir argument: None, the string "None", a path
CacheDirArgs == {PyNone, "None", "d1"}

classes == {"cardinal", "ordinal", "decimal", "measure", "date", "word",
            "time", "money", "whitelist", "electronic", "telephone"}

\* the table with whitelist at the weight of the number classes
default_class_weights_whitelist_as_cardinal ==
    [c \in classes |->
        CASE c = "date" -> 109
          [] c = "word" -> 10000
          [] OTHER -> 110]

default_class_weights ==
    [c \in classes |->
        CASE c = "date" -> 109
          [] c = "word" -> 10000
          [] c = "whitelist" -> 101
          [] OTHER -> 110]

\* the union with cardinal moved in front of time
UnionOrder_cardinal_before_time ==
    <<"whitelist", "cardinal", "time", "date", "decimal", "measure",
      "ordinal", "money", "telephone", "electronic", "word">>

\* the order of the operands of the union that forms classify
UnionOrder == <<"whitelist", "time", "date", "decimal", "measure", "cardinal",
                "ordinal", "money", "telephone", "electronic", "word">>

EmptyDict == [k \in {} |-> TRUE]

\* an Optional[Dict] argument: None, or a dict
NoneArg == [is_none |-> TRUE, dict |-> EmptyDict]
DictArg(f) == [is_none |-> FALSE, dict |-> f]

\* dict.get(key, default)
Get(d, k, default) == IF k \in DOMAIN d THEN d[k] ELSE default

\* the weights the tests give when class K is excluded: K lowest, word next
testing_class_weights(K) ==
    [c \in classes |-> IF c = K THEN 101 ELSE IF c = "word" THEN 110 ELSE 10000]

\* the classes the tests exclude
TestedClasses == {"date", "ordinal"}

\* the configurations (excluded_classes, class_weights) callers pass
Configs ==
    {[excluded_classes |-> NoneArg, class_weights |-> NoneArg]}
    \cup {[excluded_classes |-> DictArg(K :> TRUE),
           class_weights |-> DictArg(testing_class_weights(K))] : K \in TestedClasses}
    \cup {[excluded_classes |-> DictArg("bogus" :> TRUE),
           class_weights |-> DictArg("bogus" :> 5)],
          [excluded_classes |-> DictArg("date" :> FALSE),
           class_weights |-> DictArg("date" :> 101)]}

Args == [lang : Langs, cache_dir : CacheDirArgs, overwrite_cache : BOOLEAN, config : Configs]

NoArgs == [lang |-> "en", cache_dir |-> PyNone, overwrite_cache |-> FALSE,
           config |-> [excluded_classes |-> NoneArg, class_weights |-> NoneArg]]

---------------------------------------------------------------------------
(* Texts and the class grammars *)

\* one span per class whose correct tagging is that class, named after it
Texts == classes

\* the classes whose grammar accepts a span: its own class, the generic word
\* class, and cardinal for the whitelisted number word
Readings(T) ==
    {T, "word"} \cup (IF T = "whitelist" THEN {"cardinal"} ELSE {})

\* the characters of a text: the space, the punctuation marks, and words
SPACE == " "
PunctMarks == {"."}

\* the spans of several words a class accepts: a date ("march twelve"), a
\* time that also reads as a cardinal ("one twenty"), a sum of money
\* ("twenty one dollars")
Phrases(c) ==
    CASE c = "date" -> {<<"word", SPACE, "cardinal">>}
      [] c = "time" -> {<<"whitelist", SPACE, "cardinal">>}
      [] c = "cardinal" -> {<<"whitelist", SPACE, "cardinal">>}
      [] c = "money" -> {<<"cardinal", SPACE, "whitelist", SPACE, "word">>}
      [] OTHER -> {}

\* the weight of the path of a span inside the grammar of its class
PathWeight(c, span) == IF c = "date" /\ Len(span) > 1 THEN 1 ELSE 0

\* CardinalFst().fst, ..., TelephoneFst(cardinal).fst, WordFst().fst: the
\* spans class c accepts; word accepts every run of characters that are
\* neither spaces nor punctuation marks
ClassFst(l, c) ==
    [spans |-> {<<T>> : T \in {T \in Texts : c \in Readings(T)}} \cup Phrases(c),
     run |-> c = "word"]

\* an acceptor of the empty string in the place of the empty acceptor
empty_fst_accepts_empty_string == [spans |-> {<<>>}, run |-> FALSE]

\* pynini.string_map([]): accepts nothing
empty_fst == [spans |-> {}, run |-> FALSE]

---------------------------------------------------------------------------
(* File contents *)

Absent == [kind |-> "absent"]
Corrupt == [kind |-> "corrupt"]
Partial == [kind |-> "partial"]
NoFst == [kind |-> "none"]

RuleName == "tokenize_and_classify"

\* a FAR archive: rule name -> fst
FarOf(rules) == [kind |-> "far", rules |-> rules]

\* an archive that holds another rule only
ForeignFar == FarOf("other" :> NoFst)

\* the text-normalization grammar's archive
TnFar == FarOf(RuleName :> [kind |-> "tn"])

Exists(content) == content # Absent

---------------------------------------------------------------------------
(* ClassifyFst.__init__, its pure parts *)

\* excluded_classes after "if excluded_classes is None: excluded_classes = {}"
Excluded(a) == IF a.config.excluded_classes.is_none THEN EmptyDict
               ELSE a.config.excluded_classes.dict

\* the keys of a mapping that are not in classes
UnknownKeys(d) == DOMAIN d \ classes

\* unknown keys rejected: the construction raises
ReportUnknown_strict(keys) == [logged |-> keys, raised |-> keys # {}]

\* unknown keys are reported by logging.info and nothing is raised
ReportUnknown(keys) == [logged |-> keys, raised |-> FALSE]

\* the fill without "if _class not in class_weights": the default replaces
\* the weight the caller passed
FillDefaults_always_default(class_weights) ==
    [k \in DOMAIN class_weights \cup classes |->
        IF k \in classes THEN default_class_weights[k] ELSE class_weights[k]]

\* "for _class, weight in default_class_weights.items(): if _class not in
\* class_weights: class_weights[_class] = weight"
FillDefaults(class_weights) ==
    [k \in DOMAIN class_weights \cup classes |->
        IF k \in DOMAIN class_weights THEN class_weights[k] ELSE default_class_weights[k]]

\* the mappings the caller passed, as the caller holds them when __init__ is
\* over: None stays None ("class_weights = {}" binds a new dict), a dict that
\* was passed is the dict the fill writes into; excluded_classes is only read
AfterCall(config) ==
    [excluded_classes |-> config.excluded_classes,
     class_weights |-> IF config.class_weights.is_none THEN NoneArg
                       ELSE DictArg(FillDefaults(config.class_weights.dict))]

\* class_weights after "if class_weights is None: class_weights = {}" and the fill
Weights(a) == FillDefaults(IF a.config.class_weights.is_none THEN EmptyDict
                           ELSE a.config.class_weights.dict)

\* far_file = None
NoFile == <<>>

\* far_file without the test for the string "None"
FarFile_only_is_none(lang, cache_dir) ==
    IF cache_dir # PyNone THEN <<cache_dir, lang>> ELSE NoFile

\* far_file: None, or <cache_dir>/_<lang>_itn.far
FarFile(lang, cache_dir) ==
    IF cache_dir # PyNone /\ cache_dir # "None" THEN <<cache_dir, lang>> ELSE NoFile

\* the condition with overwrite_cache left out
UseCache_ignoring_overwrite(overwrite_cache, far_file, disk) ==
    far_file # NoFile /\ Exists(disk[far_file])

\* the condition with the negation of overwrite_cache dropped
UseCache_negation_dropped(overwrite_cache, far_file, disk) ==
    overwrite_cache /\ far_file # NoFile /\ Exists(disk[far_file])

\* "not overwrite_cache and far_file and os.path.exists(far_file)"
UseCache(overwrite_cache, far_file, disk) ==
    ~overwrite_cache /\ far_file # NoFile /\ Exists(disk[far_file])

\* pynini.Far(far_file, mode="r")["tokenize_and_classify"]: the fst, or an
\* exception (the file is no archive, or the archive has no such rule)
FarRead(content) ==
    IF content.kind = "far" /\ RuleName \in DOMAIN content.rules
    THEN [ok |-> TRUE, fst |-> content.rules[RuleName]]
    ELSE [ok |-> FALSE, fst |-> NoFst]

\* the classes whose grammar object the grammar of class c is constructed
\* from: en hands cardinal, decimal and ordinal to the composite classes, ru
\* constructs every class from the text-normalization grammar
BuiltOn(l, c) ==
    IF l = "ru" THEN {}
    ELSE CASE c \in {"ordinal", "decimal", "telephone"} -> {"cardinal"}
           [] c \in {"measure", "money"} -> {"cardinal", "decimal"}
           [] c = "date" -> {"ordinal"}
           [] OTHER -> {}

\* the exclusion applied to the grammar objects before the composite classes
\* are constructed from them: a class built on an excluded class is emptied
class_graphs_excluded_before_build(l, excluded_classes) ==
    [c \in classes |->
        IF \/ Get(excluded_classes, c, FALSE)
           \/ \E b \in BuiltOn(l, c) : Get(excluded_classes, b, FALSE)
        THEN empty_fst ELSE ClassFst(l, c)]

\* class_graphs after the loop that replaces the excluded classes' graphs
class_graphs(l, excluded_classes) ==
    [c \in classes |->
        IF Get(excluded_classes, c, FALSE) THEN empty_fst ELSE ClassFst(l, c)]

\* the union with every weight negated
classify_weights_negated(l, excluded_classes, class_weights) ==
    [i \in 1..Len(UnionOrder) |->
        [name |-> UnionOrder[i],
         graph |-> class_graphs(l, excluded_classes)[UnionOrder[i]],
         weight |-> 0 - class_weights[UnionOrder[i]]]]

\* the union of the weighted class graphs, in the order of its operands
classify(l, excluded_classes, class_weights) ==
    [i \in 1..Len(UnionOrder) |->
        [name |-> UnionOrder[i],
         graph |-> class_graphs(l, excluded_classes)[UnionOrder[i]],
         weight |-> class_weights[UnionOrder[i]]]]

\* the weight on delete_extra_space in the grammar of every language
SpaceWeight_every_language(l) == 110

\* the weight on delete_extra_space between two tokens (ru only)
SpaceWeight(l) == IF l = "ru" THEN 110 ELSE 0

\* graph.optimize() of the sentence grammar built around classify
Graph(l, excluded_classes, class_weights) ==
    [kind |-> "fst",
     lang |-> l,
     classify |-> classify(l, excluded_classes, class_weights),
     punct_weight |-> 110,
     space_weight |-> SpaceWeight(l),
     optimized |-> TRUE]

\* the grammar a construction with arguments a builds
BuildOf(a) == Graph(a.lang, Excluded(a), Weights(a))

\* generator_main's export: every graph optimized, stored under its rule name
Exported(graphs) ==
    FarOf([r \in DOMAIN graphs |-> [graphs[r] EXCEPT !.optimized = TRUE]])

---------------------------------------------------------------------------
(* The classify pass *)

\* the operands of the union that accept span T
Candidates(g, T) == {i \in DOMAIN g.classify : <<T>> \in g.classify[i].graph.spans}

\* the classes of the minimum-weight readings of T (empty: no path)
Winners(g, T) ==
    {g.classify[i].name : i \in
        {i \in Candidates(g, T) :
            \A j \in Candidates(g, T) : g.classify[i].weight <= g.classify[j].weight}}

---------------------------------------------------------------------------
(* The sentence grammar built around classify *)

\* a path of a grammar over text t: where it ends, what it writes, the units
\* it tags and its weight
Nil(i) == [to |-> i, out |-> <<>>, units |-> <<>>, w |-> 0]

\* concatenation of two paths
Cat(a, b) == [to |-> b.to, out |-> a.out \o b.out, units |-> a.units \o b.units,
              w |-> a.w + b.w]

\* a piece of tagged text the grammar writes itself
Lit(s) == [lit |-> s]

\* pynutil.insert(s)
insert(s, i) == [to |-> i, out |-> <<Lit(s)>>, units |-> <<>>, w |-> 0]

\* pynutil.add_weight(path, weight)
add_weight(path, weight) == [path EXCEPT !.w = @ + weight]

\* the positions a run of spaces that starts at i can end at
SpacesFrom(t, i, least) ==
    {j \in (i + least)..(Len(t) + 1) : \A k \in i..(j - 1) : t[k] = SPACE}

\* delete_space: zero or more spaces, deleted
delete_space(t, i) == {Nil(j) : j \in SpacesFrom(t, i, 0)}

\* delete_extra_space: one or more spaces, replaced by one space
delete_extra_space(t, i) == {insert(" ", j) : j \in SpacesFrom(t, i, 1)}

\* the positions where span ends when it starts at i, a space of the span
\* standing for one or more spaces of the text
RECURSIVE MatchSpan(_, _, _)
MatchSpan(t, i, span) ==
    IF span = <<>> THEN {i}
    ELSE IF Head(span) = SPACE
         THEN UNION {MatchSpan(t, k, Tail(span)) : k \in SpacesFrom(t, i, 1)}
    ELSE IF i <= Len(t) /\ t[i] = Head(span) THEN MatchSpan(t, i + 1, Tail(span))
    ELSE {}

\* the positions where a run of non-space, non-punctuation characters that
\* starts at i can end
RunEnds(t, i) ==
    {j \in (i + 1)..(Len(t) + 1) :
        \A k \in i..(j - 1) : t[k] # SPACE /\ t[k] \notin PunctMarks}

\* the tagged unit of a class (or of "punct") over a span that starts at i
Unit(c, span, i) == [class |-> c, span |-> span, at |-> i]

\* what a unit writes between "tokens { " and " }"
Tag(u) == [class |-> u.class, span |-> u.span]

\* the path of one tagged unit from i to j
UnitPath(u, j, weight) == [to |-> j, out |-> <<Tag(u)>>, units |-> <<u>>, w |-> weight]

\* the paths of one operand of the union from position i
ClassPaths(e, t, i) ==
    UNION {{UnitPath(Unit(e.name, s, i), j, PathWeight(e.name, s)) : j \in MatchSpan(t, i, s)}
              : s \in e.graph.spans}
    \cup IF e.graph.run
         THEN {UnitPath(Unit(e.name, SubSeq(t, i, j - 1), i), j, 0) : j \in RunEnds(t, i)}
         ELSE {}

\* the paths of classify from position i: each operand's paths, shifted by
\* the operand's weight
classify_paths(g, t, i) ==
    UNION {{add_weight(k, g.classify[n].weight) : k \in ClassPaths(g.classify[n], t, i)}
              : n \in DOMAIN g.classify}

\* PunctuationFst().fst: one punctuation mark
punct_graph(t, i) ==
    IF i <= Len(t) /\ t[i] \in PunctMarks
    THEN {UnitPath(Unit("punct", <<t[i]>>, i), i + 1, 0)}
    ELSE {}

\* punct = insert("tokens { ") + add_weight(punct_graph, weight=1.1) + insert(" }")
punct(g, t, i) ==
    {Cat(insert("tokens { ", i), Cat(add_weight(k, g.punct_weight), insert(" }", k.to)))
        : k \in punct_graph(t, i)}

\* token = insert("tokens { ") + classify + insert(" }")
token(g, t, i) ==
    {Cat(insert("tokens { ", i), Cat(k, insert(" }", k.to))) : k \in classify_paths(g, t, i)}

\* closure(punct + insert(" "))
RECURSIVE PunctsBefore(_, _, _)
PunctsBefore(g, t, i) ==
    {Nil(i)} \cup
    UNION {{Cat(Cat(k, insert(" ", k.to)), r) : r \in PunctsBefore(g, t, k.to)}
              : k \in punct(g, t, i)}

\* closure(insert(" ") + punct)
RECURSIVE PunctsAfter(_, _, _)
PunctsAfter(g, t, i) ==
    {Nil(i)} \cup
    UNION {{Cat(Cat(insert(" ", i), k), r) : r \in PunctsAfter(g, t, k.to)}
              : k \in punct(g, t, i)}

\* the insert(" ") between a punctuation unit and the token left out
token_plus_punct_no_insert(g, t, i) ==
    UNION {UNION {{Cat(a, Cat(k, b)) : b \in PunctsAfter(g, t, k.to)}
                     : k \in token(g, t, a.to)}
              : a \in {[x EXCEPT !.out = SelectSeq(@, LAMBDA o : o # Lit(" "))]
                          : x \in PunctsBefore(g, t, i)}}

\* token_plus_punct = closure(punct + insert(" ")) + token
\*                    + closure(insert(" ") + punct)
token_plus_punct(g, t, i) ==
    UNION {UNION {{Cat(a, Cat(k, b)) : b \in PunctsAfter(g, t, k.to)}
                     : k \in token(g, t, a.to)}
              : a \in PunctsBefore(g, t, i)}

\* closure(delete_extra_space + token_plus_punct); ru: the space carries 1.1
RECURSIVE MoreTokens(_, _, _)
MoreTokens(g, t, i) ==
    {Nil(i)} \cup
    UNION {UNION {{Cat(add_weight(s, g.space_weight), Cat(k, r))
                      : r \in MoreTokens(g, t, k.to)}
                     : k \in token_plus_punct(g, t, s.to)}
              : s \in delete_extra_space(t, i)}

\* the sentence grammar without "graph = delete_space + graph + delete_space"
GraphPaths_no_trim(g, t) ==
    {p \in UNION {{Cat(k, r) : r \in MoreTokens(g, t, k.to)}
                     : k \in token_plus_punct(g, t, 1)}
        : p.to = Len(t) + 1}

\* the sentence grammar without the closure: one token_plus_punct only
GraphPaths_one_token(g, t) ==
    {p \in UNION {UNION {{Cat(a, Cat(k, b)) : b \in delete_space(t, k.to)}
                            : k \in token_plus_punct(g, t, a.to)}
                     : a \in delete_space(t, 1)}
        : p.to = Len(t) + 1}

\* graph = token_plus_punct + closure(delete_extra_space + token_plus_punct)
\* graph = delete_space + graph + delete_space: the paths over the whole of t
GraphPaths(g, t) ==
    {p \in UNION {UNION {UNION {{Cat(a, Cat(k, Cat(r, b))) : b \in delete_space(t, r.to)}
                                   : r \in MoreTokens(g, t, k.to)}
                            : k \in token_plus_punct(g, t, a.to)}
                     : a \in delete_space(t, 1)}
        : p.to = Len(t) + 1}

---------------------------------------------------------------------------
(* The classify pass over a text *)

NotTagged == [kind |-> "none"]

\* the pass raises: the grammar has no path for the text
NoPathError == [kind |-> "NoPathError"]

\* the place of a unit's class among the operands of the union
Rank(g, c) ==
    IF c = "punct" THEN 0 ELSE CHOOSE n \in DOMAIN g.classify : g.classify[n].name = c

\* the first place where two sequences of units differ (0: none)
FirstDiff(a, b) ==
    LET both == 1..(IF Len(a) < Len(b) THEN Len(a) ELSE Len(b))
        diff == {d \in both : a[d] # b[d]}
    IN IF diff = {} THEN 0 ELSE CHOOSE d \in diff : \A e \in diff : d <= e

\* of two paths of equal weight: the class earlier in the union, then the
\* longer match
Prefers(g, p, q) ==
    LET d == FirstDiff(p.units, q.units)
    IN IF d = 0 THEN Len(p.units) <= Len(q.units)
       ELSE \/ Rank(g, p.units[d].class) < Rank(g, q.units[d].class)
            \/ /\ p.units[d].class = q.units[d].class
               /\ Len(p.units[d].span) >= Len(q.units[d].span)

\* the least of a set of weights
Least(ws) == CHOOSE w \in ws : \A v \in ws : w <= v

\* the paths of minimum total weight among paths
Shortest(paths) ==
    LET least == Least({p.w : p \in paths})
    IN {p \in paths : p.w = least}

\* the paths of the grammar over t with the minimum total weight
ShortestPaths(g, t) == Shortest(GraphPaths(g, t))

\* the tagged text of the shortest path of the grammar over t
find_tags(g, t) ==
    LET paths == GraphPaths(g, t)
    IN IF paths = {} THEN NoPathError
       ELSE LET shortest == Shortest(paths)
                best == CHOOSE p \in shortest : \A q \in shortest : Prefers(g, p, q)
            IN [kind |-> "tokens", out |-> best.out, units |-> best.units, w |-> best.w]

---------------------------------------------------------------------------
(* examples/asr/transcribe_speech.py: main, up to the trainer *)

\* an Optional[int]: None, or an int
NoneInt == [is_none |-> TRUE, value |-> 0]
IntArg(n) == [is_none |-> FALSE, value |-> n]

\* the fields of TranscriptionConfig main reads before the model is set up
TranscriptionConfig ==
    [model_path : {PyNone, "model.nemo"},
     pretrained_name : {PyNone, "pretrained"},
     audio_dir : {PyNone, "audio"},
     dataset_manifest : {PyNone, "manifest.json"},
     cuda : {NoneInt} \cup {IntArg(n) : n \in (0 - MaxCuda)..MaxCuda}]

\* main has not set up a device
NoDevice == [device |-> <<>>, is_list |-> FALSE, accelerator |-> PyNone,
             map_location |-> [type |-> PyNone]]

\* main has not made the trainer
NoTrainer == [devices |-> <<>>, accelerator |-> PyNone]

\* torch.device('cuda:{}'.format(device[0]) if accelerator == 'gpu' else 'cpu')
MapLocation(device, accelerator) ==
    IF accelerator = "gpu" THEN [type |-> "cuda", index |-> device[1]] ELSE [type |-> "cpu"]

\* "# setup GPU": device, accelerator and map_location
setup_gpu(cuda, cuda_is_available) ==
    IF cuda.is_none
    THEN IF cuda_is_available
         THEN [device |-> <<0>>, is_list |-> TRUE, accelerator |-> "gpu",
               map_location |-> MapLocation(<<0>>, "gpu")]
         ELSE [device |-> <<1>>, is_list |-> FALSE, accelerator |-> "cpu",
               map_location |-> MapLocation(<<1>>, "cpu")]
    ELSE [device |-> <<cuda.value>>, is_list |-> TRUE, accelerator |-> "gpu",
          map_location |-> MapLocation(<<cuda.value>>, "gpu")]

\* no text typed, nothing classified
PassIdle ==
    /\ text = <<>>
    /\ tagged = [p \in Procs |-> NotTagged]

\* main is not running
MainIdle ==
    /\ cfg = [model_path |-> PyNone, pretrained_name |-> PyNone, audio_dir |-> PyNone,
              dataset_manifest |-> PyNone, cuda |-> NoneInt]
    /\ is_available = FALSE
    /\ main = [at |-> "idle", setup |-> NoDevice, trainer |-> NoTrainer]

---------------------------------------------------------------------------
(* The text-normalization grammar the ru construction builds first *)

\* TNClassifyFst(input_case='cased', deterministic=False, cache_dir=cache_dir,
\* overwrite_cache=True): rebuilt, and stored when a cache_dir is given
TnWritten(cache_dir) == cache_dir # PyNone /\ cache_dir # "None"

\* a construction that has not called TNClassifyFst
NoTnCall == [built |-> FALSE, wrote |-> FALSE, over |-> FALSE]

TNClassifyFst(cache_dir, disk) ==
    IF TnWritten(cache_dir)
    THEN [disk EXCEPT ![cache_dir] = TnFar]
    ELSE disk

---------------------------------------------------------------------------
(* The cache write *)

\* the archive written in place: far_file exists before its content is whole
generator_main_in_place(p, far_file, graphs) ==
    \/ /\ far[far_file] # Partial
       /\ far' = [far EXCEPT ![far_file] = Partial]
       /\ pc' = pc
    \/ /\ far' = [far EXCEPT ![far_file] = Exported(graphs)]
       /\ pc' = [pc EXCEPT ![p] = "done"]

\* generator_main(far_file, {"tokenize_and_classify": self.fst}): the archive
\* appears under far_file whole
generator_main(p, far_file, graphs) ==
    /\ far' = [far EXCEPT ![far_file] = Exported(graphs)]
    /\ pc' = [pc EXCEPT ![p] = "done"]

---------------------------------------------------------------------------
(* ClassifyFst.__init__, step by step *)

far_file(p) == FarFile(args[p].lang, args[p].cache_dir)

\* no construction has run; the cache directory may exist already, and a file
\* left in it under a grammar's name may be damaged or another archive
Init ==
    /\ dirs \in {{}, {"d1"}}
    /\ far \in [CacheDirs \X Langs -> {Absent, Corrupt, ForeignFar}]
    /\ \A f \in CacheDirs \X Langs : f[1] \notin dirs => far[f] = Absent
    /\ tn_far = [d \in CacheDirs |-> Absent]
    /\ pc = [p \in Procs |-> "idle"]
    /\ args = [p \in Procs |-> NoArgs]
    /\ fst = [p \in Procs |-> NoFst]
    /\ logged = [p \in Procs |-> {}]
    /\ reads = [p \in Procs |-> 0]
    /\ builds = [p \in Procs |-> 0]
    /\ writes = [p \in Procs |-> 0]
    /\ found = [p \in Procs |-> "unchecked"]
    /\ constructions = 0
    /\ passed = [p \in Procs |-> NoArgs.config]
    /\ tn_calls = [p \in Procs |-> NoTnCall]
    /\ PassIdle
    /\ MainIdle

\* a caller constructs ClassifyFst(cache_dir, overwrite_cache, excluded_classes,
\* class_weights): the checks of the keys, the default weights, os.makedirs
Start(p, a, limit) ==
    /\ pc[p] \in {"idle", "done", "raised"}
    /\ constructions < limit
    /\ constructions' = constructions + 1
    /\ args' = [args EXCEPT ![p] = a]
    /\ passed' = [passed EXCEPT ![p] = AfterCall(a.config)]
    /\ tn_calls' = [tn_calls EXCEPT ![p] = NoTnCall]
    /\ fst' = [fst EXCEPT ![p] = NoFst]
    /\ reads' = [reads EXCEPT ![p] = 0]
    /\ builds' = [builds EXCEPT ![p] = 0]
    /\ writes' = [writes EXCEPT ![p] = 0]
    /\ found' = [found EXCEPT ![p] = "unchecked"]
    /\ LET report == ReportUnknown(UnknownKeys(Excluded(a)) \cup UnknownKeys(Weights(a)))
       IN /\ logged' = [logged EXCEPT ![p] = report.logged]
          /\ IF report.raised
             THEN /\ pc' = [pc EXCEPT ![p] = "raised"]
                  /\ dirs' = dirs
             ELSE /\ pc' = [pc EXCEPT ![p] = "check"]
                  /\ dirs' = IF FarFile(a.lang, a.cache_dir) # NoFile
                             THEN dirs \cup {FarFile(a.lang, a.cache_dir)[1]}
                             ELSE dirs
    /\ UNCHANGED <<far, tn_far>>
    /\ UNCHANGED <<passVars, mainVars>>

\* "if not overwrite_cache and far_file and os.path.exists(far_file)"
Check(p) ==
    /\ pc[p] = "check"
    /\ pc' = [pc EXCEPT ![p] =
                IF UseCache(args[p].overwrite_cache, far_file(p), far) THEN "restore"
                ELSE IF args[p].lang = "ru" THEN "tn" ELSE "build"]
    /\ found' = [found EXCEPT ![p] =
                   IF far_file(p) = NoFile THEN "no file"
                   ELSE IF ~Exists(far[far_file(p)]) THEN "absent"
                   ELSE IF FarRead(far[far_file(p)]).ok THEN "valid" ELSE "unreadable"]
    /\ UNCHANGED <<dirs, far, tn_far, args, fst, logged, reads, builds, writes, constructions>>
    /\ UNCHANGED <<passed, tn_calls, passVars, mainVars>>

\* "self.fst = pynini.Far(far_file, mode="r")["tokenize_and_classify"]"
Restore(p) ==
    /\ pc[p] = "restore"
    /\ reads' = [reads EXCEPT ![p] = @ + 1]
    /\ LET got == FarRead(far[far_file(p)])
       IN /\ fst' = [fst EXCEPT ![p] = got.fst]
          /\ pc' = [pc EXCEPT ![p] = IF got.ok THEN "done" ELSE "raised"]
    /\ UNCHANGED <<dirs, far, tn_far, args, logged, builds, writes, found, constructions>>
    /\ UNCHANGED <<passed, tn_calls, passVars, mainVars>>

\* ru: "tn_classify = TNClassifyFst(...)"
BuildTN(p) ==
    /\ pc[p] = "tn"
    /\ tn_far' = TNClassifyFst(args[p].cache_dir, tn_far)
    /\ tn_calls' = [tn_calls EXCEPT ![p] =
            [built |-> TRUE,
             wrote |-> TnWritten(args[p].cache_dir),
             over |-> TnWritten(args[p].cache_dir) /\ Exists(tn_far[args[p].cache_dir])]]
    /\ pc' = [pc EXCEPT ![p] = "build"]
    /\ UNCHANGED <<dirs, far, args, fst, logged, reads, builds, writes, found, constructions>>
    /\ UNCHANGED <<passed, passVars, mainVars>>

\* the class grammars, class_graphs, classify and "self.fst = graph.optimize()"
Build(p) ==
    /\ pc[p] = "build"
    /\ builds' = [builds EXCEPT ![p] = @ + 1]
    /\ fst' = [fst EXCEPT ![p] = BuildOf(args[p])]
    /\ pc' = [pc EXCEPT ![p] = "store"]
    /\ UNCHANGED <<dirs, far, tn_far, args, logged, reads, writes, found, constructions>>
    /\ UNCHANGED <<passed, tn_calls, passVars, mainVars>>

\* the store moved into a "finally": a failed build still writes far_file
BuildFail_finally_store(p) ==
    /\ pc[p] \in {"tn", "build"}
    /\ pc' = [pc EXCEPT ![p] = "raised"]
    /\ IF far_file(p) # NoFile
       THEN /\ far' = [far EXCEPT ![far_file(p)] = FarOf(RuleName :> fst[p])]
            /\ writes' = [writes EXCEPT ![p] = @ + 1]
       ELSE UNCHANGED <<far, writes>>
    /\ UNCHANGED <<dirs, tn_far, args, fst, logged, reads, builds, found, constructions>>
    /\ UNCHANGED <<passed, tn_calls, passVars, mainVars>>

\* a step of the build raises: the exception leaves __init__
BuildFail(p) ==
    /\ pc[p] \in {"tn", "build"}
    /\ pc' = [pc EXCEPT ![p] = "raised"]
    /\ UNCHANGED <<dirs, far, tn_far, args, fst, logged, reads, builds, writes, found, constructions>>
    /\ UNCHANGED <<passed, tn_calls, passVars, mainVars>>

\* "if far_file: generator_main(far_file, {"tokenize_and_classify": self.fst})"
Store(p) ==
    /\ pc[p] = "store"
    /\ IF far_file(p) # NoFile
       THEN /\ generator_main(p, far_file(p), RuleName :> fst[p])
            /\ writes' = [writes EXCEPT ![p] = @ + 1]
       ELSE /\ pc' = [pc EXCEPT ![p] = "done"]
            /\ UNCHANGED <<far, writes>>
    /\ UNCHANGED <<dirs, tn_far, args, fst, logged, reads, builds, found, constructions>>
    /\ UNCHANGED <<passed, tn_calls, passVars, mainVars>>

\* one caller, one construction after the other
Next ==
    \/ \E a \in Args : Start("p1", a, MaxConstructions)
    \/ Check("p1")
    \/ Restore("p1")
    \/ BuildTN("p1")
    \/ Build("p1")
    \/ BuildFail("p1")
    \/ Store("p1")

Spec == Init /\ [][Next]_vars

\* the arguments of callers that share one cache directory
SharedArgs ==
    {a \in Args : /\ a.cache_dir = "d1"
                  /\ UnknownKeys(Excluded(a)) = {}
                  /\ "date" \in DOMAIN Excluded(a) => Excluded(a)["date"]
                  /\ "ordinal" \notin DOMAIN Excluded(a)}

\* two callers whose constructions interleave
NextConc ==
    \E p \in Procs :
        \/ \E a \in SharedArgs : Start(p, a, MaxConcurrent)
        \/ Check(p)
        \/ Restore(p)
        \/ BuildTN(p)
        \/ Build(p)
        \/ BuildFail(p)
        \/ Store(p)

SpecConc == Init /\ [][NextConc]_vars

---------------------------------------------------------------------------
(* Texts typed, and classified by a constructed grammar *)

\* the characters the typed texts are made of
Alphabet == {SPACE, ".", "word", "whitelist", "cardinal"}

\* the words of the texts two grammars are compared on
Words == {"word", "whitelist", "cardinal"}

\* weights that make a word cheaper than a number, a time cheapest
cheap_word_weights ==
    [c \in classes |->
        CASE c = "word" -> 300
          [] c = "money" -> 300
          [] c = "time" -> 100
          [] OTHER -> 10000]

\* the configurations of the constructions whose grammar classifies a text
PassConfigs ==
    {[excluded_classes |-> NoneArg, class_weights |-> NoneArg],
     [excluded_classes |-> DictArg("date" :> FALSE), class_weights |-> DictArg("date" :> 101)],
     [excluded_classes |-> DictArg("word" :> TRUE), class_weights |-> NoneArg],
     [excluded_classes |-> DictArg("cardinal" :> TRUE), class_weights |-> NoneArg],
     [excluded_classes |-> DictArg("date" :> TRUE),
      class_weights |-> DictArg(testing_class_weights("date"))],
     [excluded_classes |-> NoneArg,
      class_weights |-> DictArg(("punctuation" :> 500) @@ ("word" :> 120))],
     [excluded_classes |-> NoneArg, class_weights |-> DictArg("date" :> (0 - 100))]}

PassArgs == [lang : Langs, cache_dir : {PyNone}, overwrite_cache : {FALSE}, config : PassConfigs]

\* the class_weights of the first of two constructions that are compared
ComparedWeights == {default_class_weights, testing_class_weights("date"), cheap_word_weights}

\* the classes whose weight the second construction lowers, and the lower weights
LoweredClasses == {"word", "time"}
LowerWeights == {1, 100}

\* the arguments of a construction without a cache, all weights given
WeightArgs(l, W) ==
    [lang |-> l, cache_dir |-> PyNone, overwrite_cache |-> FALSE,
     config |-> [excluded_classes |-> NoneArg, class_weights |-> DictArg(W)]]

\* no file on disk, no construction started
InitPass ==
    /\ dirs = {}
    /\ far = [f \in CacheDirs \X Langs |-> Absent]
    /\ tn_far = [d \in CacheDirs |-> Absent]
    /\ pc = [p \in Procs |-> "idle"]
    /\ args = [p \in Procs |-> NoArgs]
    /\ fst = [p \in Procs |-> NoFst]
    /\ logged = [p \in Procs |-> {}]
    /\ reads = [p \in Procs |-> 0]
    /\ builds = [p \in Procs |-> 0]
    /\ writes = [p \in Procs |-> 0]
    /\ found = [p \in Procs |-> "unchecked"]
    /\ constructions = 0
    /\ passed = [p \in Procs |-> NoArgs.config]
    /\ tn_calls = [p \in Procs |-> NoTnCall]
    /\ PassIdle
    /\ MainIdle

\* two constructions without a cache are over: the second was given the
\* weights of the first but for one class, whose weight it was given lower
InitCompared ==
    /\ dirs = {}
    /\ far = [f \in CacheDirs \X Langs |-> Absent]
    /\ tn_far = [d \in CacheDirs |-> Absent]
    /\ pc = [p \in Procs |-> "done"]
    /\ \E l \in Langs : \E W \in ComparedWeights : \E K \in LoweredClasses :
       \E low \in LowerWeights :
          /\ low < W[K]
          /\ args = [p \in Procs |-> IF p = "p1" THEN WeightArgs(l, W)
                                    ELSE WeightArgs(l, [W EXCEPT ![K] = low])]
          /\ fst = [p \in Procs |-> IF p = "p1" THEN BuildOf(WeightArgs(l, W))
                                   ELSE BuildOf(WeightArgs(l, [W EXCEPT ![K] = low]))]
    /\ logged = [p \in Procs |-> {}]
    /\ reads = [p \in Procs |-> 0]
    /\ builds = [p \in Procs |-> 1]
    /\ writes = [p \in Procs |-> 0]
    /\ found = [p \in Procs |-> "no file"]
    /\ constructions = 2
    /\ passed = [p \in Procs |-> args[p].config]
    /\ tn_calls = [p \in Procs |-> NoTnCall]
    /\ PassIdle
    /\ MainIdle

\* one more character of the text to classify
Type(s) ==
    /\ \E p \in Procs : pc[p] = "done"
    /\ \A p \in Procs : tagged[p] = NotTagged
    /\ Len(text) < MaxLen
    /\ text' = Append(text, s)
    /\ UNCHANGED <<constructionVars, tagged, mainVars>>

\* one more word of the text to classify, a space before it
TypeWord(w) ==
    /\ \A p \in Procs : pc[p] = "done" /\ tagged[p] = NotTagged
    /\ Len(text) < 2 * MaxWords - 1
    /\ text' = IF text = <<>> THEN <<w>> ELSE text \o <<SPACE, w>>
    /\ UNCHANGED <<constructionVars, tagged, mainVars>>

\* the classify pass of caller p's grammar over the text
ClassifyText(p) ==
    /\ pc[p] = "done"
    /\ tagged[p] = NotTagged
    /\ tagged' = [tagged EXCEPT ![p] = find_tags(fst[p], text)]
    /\ UNCHANGED <<constructionVars, text, mainVars>>

\* one construction without a cache, then a text, then its classification
NextPass ==
    \/ \E a \in PassArgs : Start("p1", a, 1)
    \/ Check("p1")
    \/ BuildTN("p1")
    \/ Build("p1")
    \/ BuildFail("p1")
    \/ Store("p1")
    \/ \E s \in Alphabet : Type(s)
    \/ ClassifyText("p1")

SpecPass == InitPass /\ [][NextPass]_vars

\* a text, then its classification by each of the two grammars
NextCompared ==
    \/ \E w \in Words : TypeWord(w)
    \/ \E p \in Procs : ClassifyText(p)

SpecCompared == InitCompared /\ [][NextCompared]_vars

---------------------------------------------------------------------------
(* transcribe_speech.main, step by step *)

\* main is called with a configuration, on a machine with or without CUDA
InitMain ==
    /\ dirs = {}
    /\ far = [f \in CacheDirs \X Langs |-> Absent]
    /\ tn_far = [d \in CacheDirs |-> Absent]
    /\ pc = [p \in Procs |-> "idle"]
    /\ args = [p \in Procs |-> NoArgs]
    /\ fst = [p \in Procs |-> NoFst]
    /\ logged = [p \in Procs |-> {}]
    /\ reads = [p \in Procs |-> 0]
    /\ builds = [p \in Procs |-> 0]
    /\ writes = [p \in Procs |-> 0]
    /\ found = [p \in Procs |-> "unchecked"]
    /\ constructions = 0
    /\ passed = [p \in Procs |-> NoArgs.config]
    /\ tn_calls = [p \in Procs |-> NoTnCall]
    /\ PassIdle
    /\ cfg \in TranscriptionConfig
    /\ is_available \in BOOLEAN
    /\ main = [at |-> "start", setup |-> NoDevice, trainer |-> NoTrainer]

\* "if cfg.model_path is None and cfg.pretrained_name is None: raise ..." and
\* "if cfg.audio_dir is None and cfg.dataset_manifest is None: raise ..."
Validate ==
    /\ main.at = "start"
    /\ main' = [main EXCEPT !.at =
                  IF \/ cfg.model_path = PyNone /\ cfg.pretrained_name = PyNone
                     \/ cfg.audio_dir = PyNone /\ cfg.dataset_manifest = PyNone
                  THEN "ValueError" ELSE "setup GPU"]
    /\ UNCHANGED <<constructionVars, passVars, cfg, is_available>>

\* "# setup GPU"
SetupGPU ==
    /\ main.at = "setup GPU"
    /\ main' = [main EXCEPT !.at = "setup model",
                            !.setup = setup_gpu(cfg.cuda, is_available)]
    /\ UNCHANGED <<constructionVars, passVars, cfg, is_available>>

\* "trainer = pl.Trainer(devices=device, accelerator=accelerator)"
SetupModel ==
    /\ main.at = "setup model"
    /\ main' = [main EXCEPT !.at = "transcribe",
                            !.trainer = [devices |-> main.setup.device,
                                         accelerator |-> main.setup.accelerator]]
    /\ UNCHANGED <<constructionVars, passVars, cfg, is_available>>

NextMain ==
    \/ Validate
    \/ SetupGPU
    \/ SetupModel

SpecMain == InitMain /\ [][NextMain]_vars

---------------------------------------------------------------------------
(* Claims *)

\* K carries the lowest weight of the configuration of a
LowestWeight(a, K) == \A c \in classes \ {K} : Weights(a)[K] < Weights(a)[c]

\* C1: a construction with overwrite_cache=False and a cache_dir never ends
\* up holding a grammar other than the one its own configuration
\* (excluded_classes, class_weights) builds.
C1_OwnConfigurationOnly ==
    \A p \in Procs :
        (pc[p] = "done" /\ ~args[p].overwrite_cache /\ far_file(p) # NoFile)
            => fst[p] = BuildOf(args[p])

\* C2: a classifier constructed the way the tests do (cache_dir,
\* overwrite_cache=False, excluded_classes[K]=True, K given the lowest weight)
\* never tags the span whose correct tagging is K as class K, whether its
\* grammar was built or restored.
C2_ExcludedClassNeverTagged ==
    \A p \in Procs : \A K \in classes :
        (/\ pc[p] = "done"
         /\ ~args[p].overwrite_cache
         /\ far_file(p) # NoFile
         /\ Get(Excluded(args[p]), K, FALSE)
         /\ LowestWeight(args[p], K))
            => K \notin Winners(fst[p], K)

\* C3: the grammar a construction restores from the cache classifies every
\* text as the grammar freshly built from that construction's configuration.
C3_RestoredClassifiesAsBuilt ==
    \A p \in Procs :
        (pc[p] = "done" /\ reads[p] > 0)
            => \A T \in Texts : Winners(fst[p], T) = Winners(BuildOf(args[p]), T)

\* C4: with a cache_dir and overwrite_cache=True the construction never reads
\* the cache file; when it is done it has built the grammar from the class
\* grammars once and then stored it, so the cache file holds that grammar.
C4_OverwriteRebuildsAndStores ==
    \A p \in Procs :
        (args[p].overwrite_cache /\ far_file(p) # NoFile)
            => /\ reads[p] = 0
               /\ pc[p] # "restore"
               /\ writes[p] > 0 => builds[p] > 0
               /\ pc[p] = "done" =>
                    /\ builds[p] = 1
                    /\ writes[p] = 1
                    /\ fst[p] = BuildOf(args[p])
                    /\ FarRead(far[far_file(p)]) = [ok |-> TRUE, fst |-> fst[p]]

\* C4's case: a construction with overwrite_cache=True that found a valid
\* cached entry has rebuilt and stored its own grammar over it
C4_Witness ==
    \E p \in Procs :
        /\ pc[p] = "done"
        /\ args[p].overwrite_cache
        /\ found[p] = "valid"
        /\ writes[p] = 1
        /\ FarRead(far[far_file(p)]).fst = fst[p]

\* C5: a construction with overwrite_cache=False that finds the cache file
\* goes on to read it; the read builds no class grammar and leaves the cache
\* files as they are, and a readable archive's grammar becomes self.fst; the
\* cache file changes only by the one write a construction makes after its
\* build.
C5_ReadBeforeBuild ==
    [][\A p \in Procs :
        /\ (/\ pc[p] = "check"
            /\ pc'[p] # "check"
            /\ ~args[p].overwrite_cache
            /\ far_file(p) # NoFile
            /\ Exists(far[far_file(p)])) => pc'[p] = "restore"
        /\ (pc[p] = "restore" /\ pc'[p] # "restore") =>
                /\ reads'[p] = 1
                /\ far' = far
                /\ tn_far' = tn_far
                /\ FarRead(far[far_file(p)]).ok =>
                        /\ pc'[p] = "done"
                        /\ fst'[p] = FarRead(far[far_file(p)]).fst
        /\ reads'[p] > 0 => (builds'[p] = 0 /\ writes'[p] = 0)
        /\ writes'[p] > writes[p] =>
                (pc[p] = "store" /\ builds[p] = 1 /\ writes'[p] = 1)
        /\ far' # far => \E q \in Procs : writes'[q] > writes[q]
      ]_vars

\* C5's case: the construction found a valid cache file, restored its grammar
\* and built nothing
C5_Witness ==
    \E p \in Procs :
        /\ pc[p] = "done"
        /\ ~args[p].overwrite_cache
        /\ found[p] = "valid"
        /\ reads[p] = 1
        /\ builds[p] = 0
        /\ fst[p] = FarRead(far[far_file(p)]).fst

\* C6: a step of a construction whose cache_dir is None or "None" changes no
\* directory and no cache file and reads none; when it is done the grammar
\* was built once from its configuration.
C6_NoCacheDirNoDisk ==
    [][\A p \in Procs :
        (pc'[p] # pc[p] /\ args'[p].cache_dir \in {PyNone, "None"}) =>
            /\ dirs' = dirs
            /\ far' = far
            /\ tn_far' = tn_far
            /\ reads'[p] = 0
            /\ writes'[p] = 0
            /\ pc'[p] # "restore"
            /\ pc'[p] = "done" => (builds'[p] = 1 /\ fst'[p] = BuildOf(args'[p]))
      ]_vars

\* C6's case: a ru construction with cache_dir="None" is done
C6_Witness ==
    \E p \in Procs :
        /\ pc[p] = "done"
        /\ args[p].cache_dir = "None"
        /\ args[p].lang = "ru"
        /\ builds[p] = 1
        /\ fst[p] = BuildOf(args[p])

\* C7: a construction that found the cache file missing or not
\* deserializable never fails on reading it.
C7_UnreadableCacheIsMiss ==
    \A p \in Procs :
        found[p] \in {"absent", "unreadable"} => ~(pc[p] = "raised" /\ reads[p] > 0)

C9_FailedBuildWritesNothing ==
    [][/\ \A p \in Procs :
            (pc[p] \in {"tn", "build"} /\ pc'[p] = "raised") =>
                /\ fst'[p] = NoFst
                /\ writes'[p] = 0
                /\ far' = far
       /\ far' # far =>
            \E q \in Procs : /\ pc[q] = "store"
                             /\ pc'[q] = "done"
                             /\ builds[q] = 1
                             /\ fst[q] = BuildOf(args[q])
                             /\ far' = [far EXCEPT ![far_file(q)] = Exported(RuleName :> fst[q])]
      ]_vars

\* C9's case: a build with overwrite_cache=True failed while a valid cache
\* file existed, and the file is still valid
C9_Witness ==
    \E p \in Procs :
        /\ pc[p] = "raised"
        /\ reads[p] = 0
        /\ args[p].overwrite_cache
        /\ found[p] = "valid"
        /\ FarRead(far[far_file(p)]).ok

\* a dict argument without its unknown keys
Known(arg) ==
    [is_none |-> arg.is_none,
     dict |-> [k \in DOMAIN arg.dict \cap classes |-> arg.dict[k]]]

\* the arguments a without the unknown keys of its two mappings
KnownArgs(a) ==
    [a EXCEPT !.config = [excluded_classes |-> Known(a.config.excluded_classes),
                          class_weights |-> Known(a.config.class_weights)]]

\* C10: starting a construction logs the unknown keys of excluded_classes and
\* class_weights and goes on to the cache test without raising, and the
\* grammar it builds is the one built from the configuration without them.
C10_UnknownKeysOnlyLogged ==
    [][\A p \in Procs :
        /\ (constructions' # constructions /\ pc'[p] # pc[p]) =>
                /\ pc'[p] = "check"
                /\ logged'[p] = UnknownKeys(Excluded(args'[p]))
                                    \cup UnknownKeys(Weights(args'[p]))
        /\ (pc[p] = "build" /\ pc'[p] = "store") =>
                fst'[p] = BuildOf(KnownArgs(args'[p]))
      ]_vars

\* C10's case: a construction given unknown keys logged them and built
C10_Witness ==
    \E p \in Procs :
        /\ pc[p] = "done"
        /\ logged[p] = {"bogus"}
        /\ builds[p] = 1
        /\ fst[p] = BuildOf(KnownArgs(args[p]))

\* the class_weights mapping the caller passed
Supplied(a) == IF a.config.class_weights.is_none THEN EmptyDict
               ELSE a.config.class_weights.dict

\* caller p's construction has built its grammar
Built(p) == pc[p] \in {"store", "done"} /\ builds[p] > 0

\* the weight shift the built grammar g applies to class c
Applied(g, c) == IF c = "punctuation" THEN g.punct_weight
                 ELSE g.classify[Rank(g, c)].weight

\* C11 as stated: for every class of the table, punctuation among them, the
\* shift the built grammar applies is the caller's class_weights entry when
\* there is one and the default otherwise.
C11_TableClassSuppliedOrDefault ==
    \A p \in Procs :
        Built(p) =>
            \A c \in classes \cup {"punctuation"} :
                Applied(fst[p], c) =
                    IF c \in DOMAIN Supplied(args[p]) THEN Supplied(args[p])[c]
                    ELSE IF c = "punctuation" THEN 110 ELSE default_class_weights[c]

\* C11: for each of the eleven classes of default_class_weights the shift the
\* built grammar applies is the caller's class_weights entry when there is one
\* and the default otherwise; punctuation is shifted by 1.1 whatever the
\* caller passes.
C11_ClassSuppliedOrDefault ==
    \A p \in Procs :
        Built(p) =>
            /\ \A c \in classes :
                  Applied(fst[p], c) =
                      IF c \in DOMAIN Supplied(args[p]) THEN Supplied(args[p])[c]
                      ELSE default_class_weights[c]
            /\ Applied(fst[p], "punctuation") = 110

C11_Witness ==
    \E p \in Procs :
        /\ pc[p] = "done"
        /\ Built(p)
        /\ "punctuation" \in DOMAIN Supplied(args[p])
        /\ "word" \in DOMAIN Supplied(args[p])
        /\ "date" \notin DOMAIN Supplied(args[p])

\* a class graph accepts a span: one of its spans, or a run of characters
\* that are neither spaces nor punctuation marks
Accepts(graph, span) ==
    \/ span \in graph.spans
    \/ /\ graph.run
       /\ span # <<>>
       /\ \A k \in DOMAIN span : span[k] # SPACE /\ span[k] \notin PunctMarks

\* C12: in the default table word is strictly the highest weight and
\* whitelist strictly the lowest; in a text classified under the default
\* weights a unit is tagged word only when no other class accepts its span,
\* and a span the whitelist accepts is tagged whitelist.
C12_WordLastWhitelistFirst ==
    /\ \A c \in classes \ {"word"} : default_class_weights[c] < default_class_weights["word"]
    /\ \A c \in classes \ {"whitelist"} :
          default_class_weights["whitelist"] < default_class_weights[c]
    /\ \A p \in Procs :
          (tagged[p].kind = "tokens" /\ Supplied(args[p]) = EmptyDict) =>
              \A n \in DOMAIN tagged[p].units :
                  LET u == tagged[p].units[n]
                  IN /\ u.class = "word" =>
                          \A m \in DOMAIN fst[p].classify :
                              Accepts(fst[p].classify[m].graph, u.span)
                                  => fst[p].classify[m].name = "word"
                     /\ (/\ u.class # "punct"
                         /\ Accepts(fst[p].classify[Rank(fst[p], "whitelist")].graph, u.span))
                            => u.class = "whitelist"

C12_Witness ==
    \E p \in Procs :
        /\ tagged[p].kind = "tokens"
        /\ Supplied(args[p]) = EmptyDict
        /\ \E n \in DOMAIN tagged[p].units :
              /\ tagged[p].units[n].class = "whitelist"
              /\ Accepts(fst[p].classify[Rank(fst[p], "cardinal")].graph,
                         tagged[p].units[n].span)
        /\ \E n \in DOMAIN tagged[p].units : tagged[p].units[n].class = "word"

\* the place of a class in the order whitelist, time, date, decimal, measure,
\* cardinal, ordinal, money, telephone, electronic, word
Place(c) ==
    CASE c = "punct" -> 0
      [] c = "whitelist" -> 1
      [] c = "time" -> 2
      [] c = "date" -> 3
      [] c = "decimal" -> 4
      [] c = "measure" -> 5
      [] c = "cardinal" -> 6
      [] c = "ordinal" -> 7
      [] c = "money" -> 8
      [] c = "telephone" -> 9
      [] c = "electronic" -> 10
      [] c = "word" -> 11

Strip(t) == SelectSeq(t, LAMBDA x : x # SPACE)

\* the characters the units of a tokenization cover, in order
RECURSIVE Surface(_)
Surface(units) ==
    IF units = <<>> THEN <<>> ELSE Strip(Head(units).span) \o Surface(Tail(units))

\* some enabled class has a match over position i of the text
Covered(g, t, i) ==
    \E k \in 1..i : \E m \in classify_paths(g, t, k) : m.to > i

\* C14: a text with a word that no enabled class has a match over is answered
\* with NoPathError; a token sequence that is returned is not empty, has no
\* empty token and covers the whole of the text.
C14_NoPathOrWholeText ==
    \A p \in Procs :
        /\ (/\ tagged[p] # NotTagged
            /\ \E i \in DOMAIN text :
                  /\ text[i] # SPACE
                  /\ text[i] \notin PunctMarks
                  /\ ~Covered(fst[p], text, i))
              => tagged[p] = NoPathError
        /\ tagged[p].kind = "tokens" =>
              /\ tagged[p].units # <<>>
              /\ \A n \in DOMAIN tagged[p].units : tagged[p].units[n].span # <<>>
              /\ Surface(tagged[p].units) = Strip(text)

C14_Witness ==
    \E p \in Procs :
        /\ tagged[p] = NoPathError
        /\ Get(Excluded(args[p]), "word", FALSE)
        /\ \E i \in DOMAIN text : text[i] = "word"
        /\ \E i \in DOMAIN text : text[i] = "cardinal"

\* the text with the spaces at its ends removed and every other run of spaces
\* made one space
Squeeze(t) ==
    LET keep(i) == \/ t[i] # SPACE
                   \/ /\ i > 1
                      /\ t[i - 1] # SPACE
                      /\ \E k \in (i + 1)..Len(t) : t[k] # SPACE
        F[i \in 0..Len(t)] ==
            IF i = 0 THEN <<>>
            ELSE IF keep(i) THEN Append(F[i - 1], t[i]) ELSE F[i - 1]
    IN F[Len(t)]

\* C15: the classify pass answers a text as it answers the same text with
\* the spaces at its ends removed and every run of spaces between two
\* characters made one space: the same tagged output, or no path for both.
C15_SpacesDoNotCount ==
    \A p \in Procs :
        tagged[p] # NotTagged =>
            LET squeezed == find_tags(fst[p], Squeeze(text))
            IN /\ squeezed.kind = tagged[p].kind
               /\ tagged[p].kind = "tokens" => squeezed.out = tagged[p].out

C15_Witness ==
    \E p \in Procs :
        /\ tagged[p].kind = "tokens"
        /\ Len(tagged[p].units) > 1
        /\ text # Squeeze(text)
        /\ \E i \in DOMAIN text : i > 2 /\ text[i] = SPACE /\ text[i - 1] = SPACE

\* tagged text made of units "tokens { ... }" with one space between them
WellFormed(out) ==
    /\ Len(out) % 4 = 3
    /\ \A n \in DOMAIN out :
          CASE n % 4 = 1 -> out[n] = Lit("tokens { ")
            [] n % 4 = 2 -> "class" \in DOMAIN out[n]
            [] n % 4 = 3 -> out[n] = Lit(" }")
            [] OTHER -> out[n] = Lit(" ")

\* C16: every output of the grammar over a text is one or more units
\* "tokens { ... }" with exactly one space between them and nothing else, one
\* per tagged unit; at least one unit is a class token; every punctuation
\* mark of the text is a unit of its own and no class token holds one.
C16_OutputIsUnits ==
    \A p \in Procs :
        tagged[p] # NotTagged =>
            \A q \in GraphPaths(fst[p], text) :
                /\ WellFormed(q.out)
                /\ Len(q.out) = 4 * Len(q.units) - 1
                /\ \A n \in DOMAIN q.units : q.out[4 * n - 2] = Tag(q.units[n])
                /\ \E n \in DOMAIN q.units : q.units[n].class # "punct"
                /\ \A n \in DOMAIN q.units :
                      IF q.units[n].class = "punct"
                      THEN Len(q.units[n].span) = 1 /\ q.units[n].span[1] \in PunctMarks
                      ELSE \A k \in DOMAIN q.units[n].span :
                              q.units[n].span[k] \notin PunctMarks
                /\ Cardinality({n \in DOMAIN q.units : q.units[n].class = "punct"})
                      = Cardinality({i \in DOMAIN text : text[i] \in PunctMarks})

C16_Witness ==
    \E p \in Procs :
        /\ tagged[p].kind = "tokens"
        /\ Len(tagged[p].units) > 2
        /\ tagged[p].units[1].class = "punct"
        /\ \E n \in DOMAIN tagged[p].units :
              n > 1 /\ tagged[p].units[n].class = "punct"

\* a negative entry of the class_weights the caller passed
BadWeight(a) == \E c \in DOMAIN Supplied(a) : Supplied(a)[c] < 0

\* C17: a construction given a negative class_weights entry fails: it never
\* reaches the store, and no grammar is built for it.
C17_BadWeightFailsConstruction ==
    \A p \in Procs :
        BadWeight(args[p]) => (fst[p] = NoFst /\ pc[p] \notin {"store", "done"})

\* the second construction was given the weights of the first but for class
\* K, whose weight it was given lower
Lowered(K) ==
    /\ args["p1"].lang = args["p2"].lang
    /\ Weights(args["p2"])[K] < Weights(args["p1"])[K]
    /\ \A c \in classes \ {K} : Weights(args["p2"])[c] = Weights(args["p1"])[c]

\* the units of a tokenization tagged K
CountOf(units, K) == Cardinality({n \in DOMAIN units : units[n].class = K})

\* C18 as stated: a span tagged K under the weights W is tagged K under the
\* weights that differ from W only by a lower weight for K.
C18_SpanKeepsItsClass ==
    \A K \in classes :
        (/\ Lowered(K)
         /\ tagged["p1"].kind = "tokens"
         /\ tagged["p2"].kind = "tokens")
            => \A n \in DOMAIN tagged["p1"].units :
                  tagged["p1"].units[n].class = K
                      => \E m \in DOMAIN tagged["p2"].units :
                            tagged["p2"].units[m] = tagged["p1"].units[n]

\* C18: under the weights that differ from W only by a lower weight for K the
\* selected tokenization has at least as many units tagged K as under W, and
\* a text of one word that is tagged K under W is tagged K.
C18_LoweredClassKeepsItsCount ==
    \A K \in classes :
        (/\ Lowered(K)
         /\ tagged["p1"].kind = "tokens"
         /\ tagged["p2"].kind = "tokens")
            => /\ CountOf(tagged["p2"].units, K) >= CountOf(tagged["p1"].units, K)
               /\ (Len(text) = 1 /\ tagged["p1"].units[1].class = K)
                     => tagged["p2"].units[1].class = K

C18_Witness ==
    \E K \in classes :
        /\ Lowered(K)
        /\ tagged["p1"].kind = "tokens"
        /\ tagged["p2"].kind = "tokens"
        /\ CountOf(tagged["p1"].units, K) > 0
        /\ tagged["p2"].units # tagged["p1"].units

\* no class is excluded
NoneExcluded(a) == \A c \in classes : ~Get(Excluded(a), c, FALSE)

\* every run of characters between spaces holds a character that is no
\* punctuation mark, and punctuation marks at its ends only
WordsInsideMarks(t) ==
    \A i \in DOMAIN t :
        t[i] # SPACE =>
            /\ \E j \in DOMAIN t :
                  /\ t[j] # SPACE
                  /\ t[j] \notin PunctMarks
                  /\ \A k \in (IF i < j THEN i ELSE j)..(IF i < j THEN j ELSE i) : t[k] # SPACE
            /\ t[i] \in PunctMarks =>
                  ~ \E a \in 1..(i - 1) : \E b \in (i + 1)..Len(t) :
                        /\ t[a] \notin PunctMarks
                        /\ t[b] \notin PunctMarks
                        /\ \A k \in a..b : t[k] # SPACE

C20_DeviceFromCuda ==
    main.at \in {"setup model", "transcribe"} =>
        IF cfg.cuda.is_none
        THEN IF is_available
             THEN main.setup.accelerator = "gpu" /\ main.setup.device = <<0>>
             ELSE main.setup.accelerator = "cpu"
        ELSE IF cfg.cuda.value < 0
             THEN main.setup.accelerator = "cpu"
             ELSE main.setup.accelerator = "gpu" /\ main.setup.device = <<cfg.cuda.value>>

\* class c is excluded by the arguments a
IsExcluded(a, c) == Get(Excluded(a), c, FALSE)

\* the graph of class c inside the grammar g
GraphOf(g, c) == g.classify[Rank(g, c)].graph

\* C21: in a built grammar the graph of a class is the empty acceptor exactly
\* when excluded_classes holds true for it; every other class, the classes
\* built on an excluded class among them, keeps the graph its grammar has,
\* and no path of the union over any position of a text is tagged with an
\* excluded class.
C21_ExclusionFrame ==
    \A p \in Procs :
        Built(p) =>
            /\ \A c \in classes :
                  /\ IsExcluded(args[p], c) <=> GraphOf(fst[p], c) = empty_fst
                  /\ ~IsExcluded(args[p], c)
                        => GraphOf(fst[p], c) = ClassFst(args[p].lang, c)
            /\ \A i \in 1..(Len(text) + 1) :
                  \A k \in classify_paths(fst[p], text, i) :
                      ~IsExcluded(args[p], k.units[1].class)

C21_Witness ==
    \E p \in Procs :
        /\ Built(p)
        /\ IsExcluded(args[p], "cardinal")
        /\ \E c \in classes :
              /\ "cardinal" \in BuiltOn(args[p].lang, c)
              /\ GraphOf(fst[p], c) # empty_fst
        /\ tagged[p].kind = "tokens"
        /\ \E i \in DOMAIN text : text[i] = "cardinal"
        /\ \E n \in DOMAIN tagged[p].units : tagged[p].units[n].class = "time"

\* the sum of f over the places 1..n
RECURSIVE SumOver(_, _)
SumOver(f, n) == IF n = 0 THEN 0 ELSE f[n] + SumOver(f, n - 1)

\* the total the claim gives a tokenization of t by a grammar of language l
\* with class weights W: class weight plus class-internal path weight per
\* token, 1.1 per punctuation mark, and in ru 1.1 per boundary between units
\* that spaces of the text separate
TotalWeight(l, W, t, units) ==
    LET cost == [n \in DOMAIN units |->
                    (IF units[n].class = "punct" THEN 110
                     ELSE W[units[n].class] + PathWeight(units[n].class, units[n].span))
                    + (IF l = "ru" /\ n > 1 /\ t[units[n].at - 1] = SPACE THEN 110 ELSE 0)]
    IN SumOver(cost, Len(units))

\* C22: the tokenization the classify pass returns has the minimum total
\* weight among the tokenizations the grammar accepts for the text, the total
\* being the sum over its tokens of class weight plus class-internal path
\* weight, plus 1.1 per punctuation mark, plus in ru 1.1 per boundary.
C22_MinimumTotalWeight ==
    \A p \in Procs :
        tagged[p].kind = "tokens" =>
            LET l == args[p].lang
                W == Weights(args[p])
            IN /\ tagged[p].w = TotalWeight(l, W, text, tagged[p].units)
               /\ \A q \in GraphPaths(BuildOf(args[p]), text) :
                     TotalWeight(l, W, text, tagged[p].units)
                         <= TotalWeight(l, W, text, q.units)

C22_Witness ==
    \E p \in Procs :
        /\ tagged[p].kind = "tokens"
        /\ args[p].lang = "ru"
        /\ \E n \in DOMAIN tagged[p].units :
              tagged[p].units[n].class = "date" /\ Len(tagged[p].units[n].span) > 1
        /\ \E n \in DOMAIN tagged[p].units : tagged[p].units[n].class = "punct"
        /\ \E q \in GraphPaths(fst[p], text) :
              /\ Len(q.units) > Len(tagged[p].units)
              /\ q.w > tagged[p].w

\* C23: a construction leaves the excluded_classes and class_weights
\* mappings the caller passed as the caller passed them.
C23_CallerMappingsUnchanged ==
    \A p \in Procs : pc[p] # "idle" => passed[p] = args[p].config

\* C24: a ru construction touches no cache artifact but _ru_itn.far. One
\* that restored its grammar from the cache neither built nor wrote the TN
\* grammar, and one called with overwrite_cache=False overwrote no artifact
\* that was in cache_dir already, the TN grammar's included.
C24_OnlyItnFarTouched ==
    \A p \in Procs : args[p].lang = "ru" =>
        /\ reads[p] > 0 => (~tn_calls[p].built /\ ~tn_calls[p].wrote)
        /\ ~args[p].overwrite_cache =>
                (~tn_calls[p].over /\ (writes[p] > 0 => found[p] = "absent"))

====
